---- MODULE Spec2Model ----
(***************************************************************************)
(* Model of src/autofuzz/alembic_fuzzer.cc: the libFuzzer entry point      *)
(* LLVMFuzzerTestOneInput, printInfo, printNodes and the per-kind          *)
(* printers.  The Alembic library and the temp-file utility are external:  *)
(* every answer they give (validity, header, counts, names, a thrown       *)
(* exception, a return code) is drawn with \E at the call that asks.       *)
(***************************************************************************)
EXTENDS Integers, Sequences, FiniteSets, TLC

VARIABLES
  initialized,  \* static bool initialized (line 291)
  silenced,     \* number of ignore_stdout() calls made by the process
  invocation,   \* calls of LLVMFuzzerTestOneInput so far: "none", "first"
                \* (the first is running or over), "later"
  pc,           \* position inside LLVMFuzzerTestOneInput / the process
  created,      \* result of buf_to_file in this invocation: "none", "ok", "null"
  deleted,      \* result of delete_file in this invocation: "none", "ok", "fail"
  deletes,      \* number of delete_file calls in this invocation
  file,         \* the temporary file on disk: "absent" or "exists"
  exitStatus,   \* << >>, or <<status>> once returned / passed to exit()
  fileLine,     \* the "file ..." line of printInfo: "none", "valid", "invalid"
  named,        \* the "file name:" line was printed
  rootCalls,    \* number of printNodes(archive.getTop()) calls made by printInfo
  stack,        \* call stack of printNodes frames, innermost last
  visited,      \* paths of the nodes whose header block was printed, in order
  counts,       \* counts[k]: getNumChildren() answer for visited[k]
  block,        \* lines printed for its own node (lines 248-267) by the
                \* innermost running printNodes call, until it goes on to
                \* its children (line 270) or is unwound by an exception
  threw,        \* a library call of this invocation threw
  caught        \* the catch clause printed e.what()

vars == <<initialized, silenced, invocation, pc, created, deleted, deletes, file,
          exitStatus, fileLine, named, rootCalls, stack, visited, counts, block,
          threw, caught>>

\* ---- bounds of the model ------------------------------------------------
MaxNodes == 4
MaxProps == 2
MaxGeo == 1
MaxMatches == 2

\* ---- program constants --------------------------------------------------
EXIT_SUCCESS == 0
EXIT_FAILURE == 1

\* The kinds in the order of the if-chain of printNodes.
KindOrder == <<"mesh", "subd", "faceset", "curve", "xform", "material">>
KindSet == {KindOrder[k] : k \in 1..Len(KindOrder)}

\* A header is modelled by the set of kinds whose matches() test it passes.
HeaderCases == {h \in SUBSET KindSet : Cardinality(h) <= MaxMatches}

\* Property names a schema may declare; "Cd" stands for any other name.
PropNames == {"P", "N", "uv", "st", ".arbGeomParams", "Cd"}
GeoNames == {"Cd"}

Line(tag, idx, name) == [tag |-> tag, idx |-> idx, name |-> name]

\* ---- printNodes: dispatch (lines 253-267) -------------------------------
DispatchLastMatch(h) ==
  IF "material" \in h THEN "material"
  ELSE IF "xform" \in h THEN "xform"
  ELSE IF "curve" \in h THEN "curve"
  ELSE IF "faceset" \in h THEN "faceset"
  ELSE IF "subd" \in h THEN "subd"
  ELSE IF "mesh" \in h THEN "mesh"
  ELSE "ignored"

Dispatch(h) ==
  IF "mesh" \in h THEN "mesh"
  ELSE IF "subd" \in h THEN "subd"
  ELSE IF "faceset" \in h THEN "faceset"
  ELSE IF "curve" \in h THEN "curve"
  ELSE IF "xform" \in h THEN "xform"
  ELSE IF "material" \in h THEN "material"
  ELSE "ignored"

\* ---- per-kind property printers: the branch taken for a name ------------
\* "schema": schema.getNumSamples(); "normals": getNormalsParam();
\* "uvs": getUVsParam(); "arb": getArbGeomParams(); "none": name only.
MeshBranch(name) ==
  IF name = "P" THEN "schema"
  ELSE IF name = "N" THEN "normals"
  ELSE IF name = "uv" \/ name = "st" THEN "uvs"
  ELSE IF name = ".arbGeomParams" THEN "arb"
  ELSE "none"

SubDBranch(name) ==
  IF name = "P" THEN "schema"
  ELSE IF name = "uv" \/ name = "st" THEN "uvs"
  ELSE IF name = ".arbGeomParams" THEN "arb"
  ELSE "none"

CurvesBranchNoUV(name) ==
  IF name = "P" THEN "schema"
  ELSE IF name = "N" THEN "normals"
  ELSE IF name = ".arbGeomParams" THEN "arb"
  ELSE "none"

CurvesBranch(name) ==
  IF name = "P" THEN "schema"
  ELSE IF name = "N" THEN "normals"
  ELSE IF name = "uv" \/ name = "st" THEN "uvs"
  ELSE IF name = ".arbGeomParams" THEN "arb"
  ELSE "none"

Branch(kind, name) ==
  IF kind = "mesh" THEN MeshBranch(name)
  ELSE IF kind = "subd" THEN SubDBranch(name)
  ELSE CurvesBranch(name)

PropertyKinds == {"mesh", "subd", "curve"}

CountTitle(kind) ==
  IF kind = "mesh" THEN "Mesh Property Count"
  ELSE IF kind = "subd" THEN "SubD Property Count"
  ELSE "Curves Property Count"

\* The four trailing lines of printSubD (lines 179-186).
SubDTail == << Line("Subdivision Scheme", 0, ""),
               Line("Face Varying Interpolate Boundary", 0, ""),
               Line("Face Varying Propagate Corners", 0, ""),
               Line("Interpolate Boundary", 0, "") >>

\* The two lines of printXform (lines 210-211).
XformLinesNoOps == << Line("Sample Count", 0, "schema") >>
XformLines == << Line("Sample Count", 0, "schema"), Line("Number of Ops", 0, "") >>

\* The line of printFaceSet (line 194).
FaceSetLines == << Line("Sample Count", 0, "schema") >>

\* printMaterial: targetNames is a fresh empty vector (lines 219-221).
targetNames == << >>
MaterialLines == << Line("Target Count", Len(targetNames), "") >>

\* The header block of printNodes (lines 248-250).
HeaderBlock == << Line("Node name", 0, ""), Line("Node full name", 0, ""),
                  Line("MetaData", 0, "") >>

IgnoredLines == << Line("Object type ignored.", 0, "") >>

\* ---- frames of printNodes ----------------------------------------------
Frame(path) ==
  [path |-> path, stage |-> "header", hdr |-> {}, kind |-> "", reports |-> 0,
   i |-> 0, n |-> 0, p |-> 0, np |-> 0, g |-> 0, ng |-> 0]

Top == stack[Len(stack)]
SetTop(f) == [stack EXCEPT ![Len(stack)] = f]
Pop == SubSeq(stack, 1, Len(stack) - 1)

RECURSIVE SumSeq(_)
SumSeq(s) == IF s = << >> THEN 0 ELSE Head(s) + SumSeq(Tail(s))

\* Nodes of the archive known so far: the root and every counted child.
Discovered == 1 + SumSeq(counts)

\* ---- exceptions ---------------------------------------------------------
\* Where control lands when a library call inside the try block throws:
\* the catch (const std::exception&) clause of lines 306-308.  The library
\* reports errors with exceptions derived from std::exception.
OnThrowEscapes == "escaped"
OnThrow == "catch"

\* ---- one-time setup (lines 294-297) -------------------------------------
NeedsSetupAlways(flag) == TRUE
NeedsSetup(flag) == ~flag

\* ---- result of the deletion test (lines 310-314) ------------------------
AfterDeleteIgnoresCode(rc) == "returned"
AfterDelete(rc) == IF rc # 0 THEN "exited" ELSE "returned"

\* ---- printInfo: the if (fileValid) test (line 285) -----------------------
AfterValidityAlwaysWalks(r) == "name"
AfterValidity(r) == IF r = "valid" THEN "name" ELSE "cleanup"

\* ---- loop increments ----------------------------------------------------
NextChildStuck(i) == i
NextChild(i) == i + 1

\* The child fetched by the loop body: node.getChild(i) (line 272).
ChildIndexReversed(f) == f.n - 1 - f.i
ChildIndex(f) == f.i

Init ==
  /\ initialized = FALSE
  /\ silenced = 0
  /\ invocation = "none"
  /\ pc = "idle"
  /\ created = "none"
  /\ deleted = "none"
  /\ deletes = 0
  /\ file = "absent"
  /\ exitStatus = << >>
  /\ fileLine = "none"
  /\ named = FALSE
  /\ rootCalls = 0
  /\ stack = << >>
  /\ visited = << >>
  /\ counts = << >>
  /\ block = << >>
  /\ threw = FALSE
  /\ caught = FALSE

\* A library call throws: the stack unwinds to the handler.
Throws ==
  /\ threw' = TRUE
  /\ stack' = << >>
  /\ block' = << >>
  /\ pc' = OnThrow

\* A frame past the dispatch: the header reference is not used again.
Reported(f) == [f EXCEPT !.hdr = {}, !.kind = ""]

\* LLVMFuzzerTestOneInput entered; lines 294-297.
Enter ==
  /\ pc \in {"idle", "returned"}
  /\ invocation' = IF invocation = "none" THEN "first" ELSE "later"
  /\ silenced' = IF NeedsSetup(initialized) THEN silenced + 1 ELSE silenced
  /\ initialized' = TRUE
  /\ pc' = "create"
  /\ created' = "none"
  /\ deleted' = "none"
  /\ deletes' = 0
  /\ exitStatus' = << >>
  /\ fileLine' = "none"
  /\ named' = FALSE
  /\ rootCalls' = 0
  /\ stack' = << >>
  /\ visited' = << >>
  /\ counts' = << >>
  /\ block' = << >>
  /\ threw' = FALSE
  /\ caught' = FALSE
  /\ UNCHANGED file

\* buf_to_file and its NULL test; lines 299-302.
CreateFile ==
  /\ pc = "create"
  /\ \E ok \in BOOLEAN :
       IF ok
       THEN /\ created' = "ok"
            /\ file' = "exists"
            /\ pc' = "try"
            /\ UNCHANGED exitStatus
       ELSE /\ created' = "null"
            /\ pc' = "exited"
            /\ exitStatus' = << EXIT_FAILURE >>
            /\ UNCHANGED file
  /\ UNCHANGED <<initialized, silenced, invocation, deleted, deletes, fileLine,
                 named, rootCalls, stack, visited, counts, block, threw, caught>>

\* printInfo: factory.getArchive, archive.valid and the file line; 279-285.
OpenArchive ==
  /\ pc = "try"
  /\ \E r \in {"throw", "valid", "invalid"} :
       IF r = "throw"
       THEN Throws /\ UNCHANGED fileLine
       ELSE /\ fileLine' = r
            /\ pc' = AfterValidity(r)
            /\ UNCHANGED <<stack, threw, block>>
  /\ UNCHANGED <<initialized, silenced, invocation, created, deleted, deletes,
                 file, exitStatus, named, rootCalls, visited, counts, caught>>

\* printInfo: archive.getName(); line 286.
ReadName ==
  /\ pc = "name"
  /\ \E ok \in BOOLEAN :
       IF ok
       THEN named' = TRUE /\ pc' = "top" /\ UNCHANGED <<stack, threw, block>>
       ELSE Throws /\ UNCHANGED named
  /\ UNCHANGED <<initialized, silenced, invocation, created, deleted, deletes,
                 file, exitStatus, fileLine, rootCalls, visited, counts, caught>>

\* printInfo: printNodes(archive.getTop()); line 287.
GetTop ==
  /\ pc = "top"
  /\ \E ok \in BOOLEAN :
       IF ok
       THEN /\ rootCalls' = rootCalls + 1
            /\ stack' = << Frame(<< >>) >>
            /\ pc' = "walk"
            /\ UNCHANGED <<threw, block>>
       ELSE Throws /\ UNCHANGED rootCalls
  /\ UNCHANGED <<initialized, silenced, invocation, created, deleted, deletes,
                 file, exitStatus, fileLine, named, visited, counts, caught>>

\* ---- printNodes ---------------------------------------------------------
InFrame(stage) == pc = "walk" /\ stack # << >> /\ Top.stage = stage

WalkFrame ==
  UNCHANGED <<initialized, silenced, invocation, created, deleted, deletes,
              file, exitStatus, fileLine, named, rootCalls, caught>>

\* Header block and dispatch; lines 246-267.  getHeader()/serialize() may
\* throw; the matches() tests are comparisons on the header already fetched.
PrintNodesHeader ==
  /\ InFrame("header")
  /\ Len(visited) < MaxNodes          \* the archive has at most MaxNodes nodes
  /\ \/ Throws /\ UNCHANGED visited
     \/ \E h \in HeaderCases :
          /\ block' = HeaderBlock
          /\ visited' = Append(visited, Top.path)
          /\ stack' = SetTop([Top EXCEPT !.hdr = h, !.kind = Dispatch(h),
                                         !.reports = @ + 1, !.stage = "report"])
          /\ UNCHANGED <<pc, threw>>
  /\ UNCHANGED counts
  /\ WalkFrame

\* The else branch of the dispatch; lines 265-267.
PrintIgnored ==
  /\ InFrame("report")
  /\ Top.kind = "ignored"
  /\ block' = block \o IgnoredLines
  /\ stack' = SetTop([Top EXCEPT !.hdr = {}, !.stage = "numchildren"])
  /\ UNCHANGED <<pc, threw, visited, counts>>
  /\ WalkFrame

\* A printer that builds the schema object and prints fixed lines: building
\* the schema and reading each value are library calls, which may throw.
PrintLines(kind, lines) ==
  /\ InFrame("report")
  /\ Top.kind = kind
  /\ \/ Throws
     \/ /\ block' = block \o lines
        /\ stack' = SetTop([Top EXCEPT !.hdr = {}, !.stage = "numchildren"])
        /\ UNCHANGED <<pc, threw>>
  /\ UNCHANGED <<visited, counts>>
  /\ WalkFrame

\* printFaceSet; lines 189-195.
PrintFaceSet == PrintLines("faceset", FaceSetLines)

\* printXform; lines 205-212.
PrintXform == PrintLines("xform", XformLines)

\* printMaterial; lines 214-243.  The target loop runs Len(targetNames) = 0
\* times.
PrintMaterial == PrintLines("material", MaterialLines)

\* Stage after the property loop of a kind: printSubD goes on with four
\* more lines, printPolyMesh and printCurves return.
AfterProps(kind) == IF kind = "subd" THEN "tail" ELSE "numchildren"

\* End of one iteration of the property loop: p++ and the loop test.
NextProp(f) ==
  [f EXCEPT !.p = @ + 1, !.g = 0, !.ng = 0,
            !.stage = IF f.p + 1 < f.np THEN "props" ELSE AfterProps(f.kind)]

\* Schema construction, getNumProperties and the count line; lines 164-170
\* with 54-57 (mesh), 173-178 with 92-95 (subd), 197-202 with 127-130 (curve).
SchemaOpen(kind) ==
  /\ InFrame("report")
  /\ Top.kind = kind
  /\ \/ Throws
     \/ \E c \in 0..MaxProps :
          /\ block' = Append(block, Line(CountTitle(kind), c, ""))
          /\ stack' = SetTop([Top EXCEPT !.hdr = {}, !.p = 0, !.np = c,
                                !.stage = IF 0 < c THEN "props" ELSE AfterProps(kind)])
          /\ UNCHANGED <<pc, threw>>
  /\ UNCHANGED <<visited, counts>>
  /\ WalkFrame

PrintPolyMesh == SchemaOpen("mesh")
PrintSubD == SchemaOpen("subd")
PrintCurves == SchemaOpen("curve")

\* One iteration of the property loop; lines 57-88, 95-123, 130-161.
PropStep(kind) ==
  /\ InFrame("props")
  /\ Top.kind = kind
  /\ Top.p < Top.np
  /\ \/ Throws                        \* getPropertyHeader(p) throws
     \/ \E name \in PropNames :
          LET nameLine == Line("Property", Top.p, name)
              b == Branch(kind, name)
          IN  \/ /\ b = "none"
                 /\ block' = Append(block, nameLine)
                 /\ stack' = SetTop(NextProp(Top))
                 /\ UNCHANGED <<pc, threw>>
              \/ /\ b \in {"schema", "normals", "uvs"}
                 /\ \/ /\ block' = block \o << nameLine, Line("Sample Count", 0, b) >>
                       /\ stack' = SetTop(NextProp(Top))
                       /\ UNCHANGED <<pc, threw>>
                    \/ Throws            \* the accessor of the count throws
              \/ /\ b = "arb"
                 /\ \/ \E c \in 0..MaxGeo :
                         /\ block' = block \o << nameLine, Line("GeomParams Count", c, "") >>
                         /\ stack' = SetTop(IF 0 < c
                                            THEN [Top EXCEPT !.g = 0, !.ng = c, !.stage = "geo"]
                                            ELSE NextProp(Top))
                         /\ UNCHANGED <<pc, threw>>
                    \/ Throws            \* the accessor of the count throws
  /\ UNCHANGED <<visited, counts>>
  /\ WalkFrame

PrintMeshAttributes == PropStep("mesh")
PrintSubDAttributes == PropStep("subd")
PrintCurvesAttributes == PropStep("curve")

\* One iteration of the arbGeomParams loop; lines 79-86, 114-121, 152-159.
ArbGeomParam ==
  /\ InFrame("geo")
  /\ Top.g < Top.ng
  /\ \/ Throws
     \/ \E name \in GeoNames :
          /\ block' = Append(block, Line("arbGeomParam", Top.g, name))
          /\ stack' = SetTop(IF Top.g + 1 < Top.ng
                             THEN [Top EXCEPT !.g = @ + 1]
                             ELSE NextProp(Top))
          /\ UNCHANGED <<pc, threw>>
  /\ UNCHANGED <<visited, counts>>
  /\ WalkFrame

\* The four property lines that end printSubD; lines 179-186.
PrintSubDTail ==
  /\ InFrame("tail")
  /\ \/ Throws
     \/ /\ block' = block \o SubDTail
        /\ stack' = SetTop([Top EXCEPT !.stage = "numchildren"])
        /\ UNCHANGED <<pc, threw>>
  /\ UNCHANGED <<visited, counts>>
  /\ WalkFrame

\* node.getNumChildren(); line 270.
GetNumChildren ==
  /\ InFrame("numchildren")
  /\ \/ Throws /\ UNCHANGED counts
     \/ \E c \in 0..(MaxNodes - Discovered) :
          /\ counts' = Append(counts, c)
          /\ stack' = SetTop([Top EXCEPT !.i = 0, !.n = c, !.stage = "children",
                                         !.p = 0, !.np = 0, !.g = 0, !.ng = 0])
          /\ block' = << >>
          /\ UNCHANGED <<pc, threw>>
  /\ UNCHANGED visited
  /\ WalkFrame

\* The loop test and printNodes(node.getChild(i)); lines 271-272.
Recurse ==
  /\ InFrame("children")
  /\ Top.i < Top.n
  /\ \/ Throws
     \/ /\ stack' = Append(SetTop(Reported(Top)), Frame(Append(Top.path, ChildIndex(Top))))
        /\ UNCHANGED <<pc, threw, block>>
  /\ UNCHANGED <<visited, counts>>
  /\ WalkFrame

\* The loop ends and printNodes returns; lines 271-274.  The caller's i++
\* runs on return; the root's return ends printInfo and the try block.
ReturnNode ==
  /\ InFrame("children")
  /\ Top.i >= Top.n
  /\ IF Len(stack) = 1
     THEN stack' = << >> /\ pc' = "cleanup"
     ELSE /\ stack' = [Pop EXCEPT ![Len(stack) - 1].i = NextChild(@)]
          /\ UNCHANGED pc
  /\ UNCHANGED <<threw, visited, counts, block>>
  /\ WalkFrame

CatchReturnsEarly ==
  /\ pc = "catch"
  /\ caught' = TRUE
  /\ pc' = "returned"
  /\ exitStatus' = << EXIT_SUCCESS >>
  /\ UNCHANGED <<initialized, silenced, invocation, created, deleted, deletes,
                 file, fileLine, named, rootCalls, stack, visited, counts, block,
                 threw>>

\* catch (const std::exception& e): prints e.what(); lines 306-308.
Catch ==
  /\ pc = "catch"
  /\ caught' = TRUE
  /\ pc' = "cleanup"
  /\ UNCHANGED <<initialized, silenced, invocation, created, deleted, deletes,
                 file, exitStatus, fileLine, named, rootCalls, stack, visited,
                 counts, block, threw>>

\* delete_file and its test, then return EXIT_SUCCESS; lines 310-314.
DeleteFile ==
  /\ pc = "cleanup"
  /\ \E rc \in {0, -1} :
       /\ deletes' = deletes + 1
       /\ deleted' = IF rc = 0 THEN "ok" ELSE "fail"
       /\ file' = IF rc = 0 THEN "absent" ELSE file
       /\ pc' = AfterDelete(rc)
       /\ exitStatus' = IF AfterDelete(rc) = "exited" THEN << EXIT_FAILURE >>
                                                        ELSE << EXIT_SUCCESS >>
  /\ UNCHANGED <<initialized, silenced, invocation, created, fileLine, named,
                 rootCalls, stack, visited, counts, block, threw, caught>>

\* The steps of one invocation.
Step ==
  \/ CreateFile
  \/ OpenArchive
  \/ ReadName
  \/ GetTop
  \/ PrintNodesHeader
  \/ PrintIgnored
  \/ PrintPolyMesh
  \/ PrintSubD
  \/ PrintCurves
  \/ PrintFaceSet
  \/ PrintXform
  \/ PrintMaterial
  \/ PrintMeshAttributes
  \/ PrintSubDAttributes
  \/ PrintCurvesAttributes
  \/ ArbGeomParam
  \/ PrintSubDTail
  \/ GetNumChildren
  \/ Recurse
  \/ ReturnNode
  \/ Catch
  \/ DeleteFile

Next == Enter \/ Step

Spec == Init /\ [][Next]_vars

\* The harness is sequential code: a started invocation keeps running.  The
\* fuzzing engine may call any number of times, and is free never to call
\* again.
FairSpec == Spec /\ WF_vars(Step)

\* ---- properties ---------------------------------------------------------
Running == pc \notin {"idle", "returned", "exited", "escaped"}
Ended == pc \in {"returned", "exited", "escaped"}
PrintInfoOver == pc \in {"cleanup", "returned", "exited"}
Range(s) == {s[k] : k \in 1..Len(s)}

C2_DeletedExactlyOnce ==
  /\ deletes <= 1
  /\ (deletes = 1 <=> deleted # "none")
  /\ (created # "ok" => deletes = 0)
  /\ (Ended /\ created = "ok" => deletes = 1)
  /\ (pc = "returned" => file = "absent")

\* The library threw while opening the archive and the file was deleted.
C2_Witness ==
  /\ pc = "returned"
  /\ threw
  /\ fileLine = "none"
  /\ deletes = 1
  /\ file = "absent"

\* Every loop index stays within the count read before its loop, and the
\* nodes visited never outnumber the nodes of the archive; a call about to
\* print its header is on a node not visited before.
LoopsBounded ==
  /\ \A k \in 1..Len(stack) :
       /\ 0 <= stack[k].i /\ stack[k].i <= stack[k].n
       /\ 0 <= stack[k].p /\ stack[k].p <= stack[k].np
       /\ 0 <= stack[k].g /\ stack[k].g <= stack[k].ng
       /\ (stack[k].stage = "props" => stack[k].p < stack[k].np)
       /\ (stack[k].stage = "geo" => stack[k].g < stack[k].ng)
       /\ (k < Len(stack) => stack[k].i < stack[k].n)
  /\ Len(visited) <= Discovered
  /\ (stack # << >> /\ Top.stage = "header" => Len(visited) < Discovered)
  /\ Discovered <= MaxNodes

\* C3: for an archive with a finite node tree and finite property lists,
\* every started invocation finishes (returns or exits the process); every
\* loop over children and properties is bounded by the count read before it
\* and no node is visited without end.
C3_Terminates == []LoopsBounded /\ (Running ~> Ended)

\* A traversal of a full-size archive has finished without an exception.
C3_Witness ==
  /\ pc = "returned"
  /\ ~threw
  /\ Len(visited) = MaxNodes

\* C4: the invocation ends in exit(EXIT_FAILURE) exactly when buf_to_file
\* returned NULL or delete_file returned non-zero; otherwise, library
\* exceptions included, it returns EXIT_SUCCESS.  When creation fails the
\* archive is never opened and no node is visited.
C4_ExitOnlyOnFileFailure ==
  /\ pc # "escaped"
  /\ (pc = "exited" <=> (created = "null" \/ deleted = "fail"))
  /\ (pc = "exited" => exitStatus = << EXIT_FAILURE >>)
  /\ (pc = "returned" => exitStatus = << EXIT_SUCCESS >>)
  /\ (exitStatus # << >> <=> pc \in {"returned", "exited"})
  /\ (created = "null" =>
        /\ fileLine = "none" /\ ~named /\ rootCalls = 0
        /\ visited = << >> /\ ~threw /\ deletes = 0)

\* The process exited because deleting the file of an invalid archive failed.
C4_Witness ==
  /\ pc = "exited"
  /\ deleted = "fail"
  /\ fileLine = "invalid"
  /\ exitStatus = << EXIT_FAILURE >>

\* C5 as stated: an invalid archive gets the marker and no traversal (no
\* name read, no root fetched, printNodes never called); a valid one gets
\* no marker and, once printInfo is over, exactly one printNodes call on the
\* root.
C5_AsStated ==
  /\ (fileLine = "invalid" => ~named /\ rootCalls = 0 /\ visited = << >>)
  /\ (fileLine = "valid" /\ (PrintInfoOver \/ pc = "catch") => rootCalls = 1)

\* C5 amended: as stated for the invalid archive; for a valid one
\* printNodes is called on the root at most once, after the name was read,
\* and exactly once unless getName() or getTop() threw before the traversal
\* started.
C5_ValidityGatesTraversal ==
  /\ (fileLine = "invalid" => ~named /\ rootCalls = 0 /\ visited = << >> /\ ~threw)
  /\ rootCalls <= 1
  /\ (rootCalls = 1 => fileLine = "valid" /\ named)
  /\ (visited # << >> => rootCalls = 1 /\ visited[1] = << >>)
  /\ (fileLine = "valid" /\ (PrintInfoOver \/ pc = "catch") /\ rootCalls = 0
        => threw /\ visited = << >>)
  /\ (fileLine = "valid" /\ PrintInfoOver /\ ~threw
        => rootCalls = 1 /\ visited # << >>)

\* A valid archive was walked from the root to the end.
C5_Witness ==
  /\ fileLine = "valid"
  /\ pc = "cleanup"
  /\ ~threw
  /\ rootCalls = 1
  /\ Len(visited) >= 2

\* Position of a kind in the fixed order of the claim.
Rank(kind) == CHOOSE k \in 1..Len(KindOrder) : KindOrder[k] = kind

\* The lines each kind report starts with.
FirstLines(kind) ==
  IF kind = "mesh" THEN <<"Mesh Property Count">>
  ELSE IF kind = "subd" THEN <<"SubD Property Count">>
  ELSE IF kind = "faceset" THEN <<"Sample Count">>
  ELSE IF kind = "curve" THEN <<"Curves Property Count">>
  ELSE IF kind = "xform" THEN <<"Sample Count", "Number of Ops">>
  ELSE IF kind = "material" THEN <<"Target Count">>
  ELSE <<"Object type ignored.">>

\* C6: every node whose header block was printed gets exactly one kind
\* report; it is the report of the first kind, in the order mesh, subd,
\* face set, curve, xform, material, whose matches test passes (also when a
\* later kind matches too), and the generic "Object type ignored." report
\* when none passes.
C6_FirstMatchWins ==
  /\ KindOrder = <<"mesh", "subd", "faceset", "curve", "xform", "material">>
  /\ \A k \in 1..Len(stack) :
       LET f == stack[k] IN
         /\ (f.stage = "header" => f.reports = 0)
         /\ (f.stage # "header" => f.reports = 1)
         /\ (f.stage = "report" =>
               /\ (f.hdr = {} => f.kind = "ignored")
               /\ (f.hdr # {} =>
                     /\ f.kind \in f.hdr
                     /\ \A x \in f.hdr : Rank(f.kind) <= Rank(x)))
         /\ (f.stage = "numchildren" =>
               /\ Len(block) >= 3 + Len(FirstLines(f.kind))
               /\ \A j \in 1..Len(FirstLines(f.kind)) :
                    block[3 + j].tag = FirstLines(f.kind)[j]
               /\ (f.kind \in {"faceset", "xform", "material", "ignored"}
                     => Len(block) = 3 + Len(FirstLines(f.kind))))

\* A header that matches face set and curve is about to be reported as a
\* face set.
C6_Witness ==
  /\ pc = "walk"
  /\ stack # << >>
  /\ Top.stage = "report"
  /\ Top.hdr = {"faceset", "curve"}
  /\ Top.kind = "faceset"

\* Path a comes before path b in a depth-first pre-order listing.
PreorderLess(a, b) ==
  \/ Len(a) < Len(b) /\ SubSeq(b, 1, Len(a)) = a
  \/ \E k \in 1..Len(a) :
       /\ k <= Len(b)
       /\ SubSeq(a, 1, k - 1) = SubSeq(b, 1, k - 1)
       /\ a[k] < b[k]

\* The child count read for a visited node.
CountOf(path) == counts[CHOOSE k \in 1..Len(visited) : visited[k] = path]

\* C7: without a library exception the nodes are visited exactly once each
\* in depth-first pre-order: a node's header and report before its
\* descendants, children in increasing index, the subtree of child i before
\* child i+1, whatever the kind of the node.
C7_PreOrder ==
  /\ \A a, b \in 1..Len(visited) : a < b => PreorderLess(visited[a], visited[b])
  /\ \A k \in 1..(Len(stack) - 1) :
       /\ stack[k].stage = "children"
       /\ stack[k + 1].path = Append(stack[k].path, stack[k].i)
  /\ (stack # << >> /\ Top.stage \notin {"header", "children"}
        => visited[Len(visited)] = Top.path)
  /\ (PrintInfoOver /\ ~threw /\ fileLine = "valid" =>
        /\ Len(counts) = Len(visited)
        /\ visited[1] = << >>
        /\ Len(visited) = Discovered
        /\ \A k \in 1..Len(visited) :
             /\ \A c \in 0..(counts[k] - 1) : Append(visited[k], c) \in Range(visited)
             /\ visited[k] # << >> =>
                  LET parent == SubSeq(visited[k], 1, Len(visited[k]) - 1) IN
                    /\ parent \in Range(visited)
                    /\ visited[k][Len(visited[k])] < CountOf(parent))

\* The root has two children and the first child has one: the grandchild is
\* visited before the second child.
C7_Witness ==
  /\ pc = "returned"
  /\ ~threw
  /\ visited = << << >>, <<0>>, <<0, 0>>, <<1>> >>
  /\ counts = <<2, 1, 0, 0>>

\* The well-known names of the claim and the tags of the count lines.
WellKnown == {"P", "N", "uv", "st", ".arbGeomParams"}
CountTags == {"Sample Count", "GeomParams Count"}

\* A property report (mesh, subd or curve) is running or has just ended.
InReport ==
  /\ pc = "walk"
  /\ stack # << >>
  /\ Top.kind \in PropertyKinds
  /\ Top.stage \in {"props", "geo", "tail", "numchildren"}

\* C8 as stated: for mesh, subd and curve alike, a property named P, N, uv,
\* st or .arbGeomParams gets a count line after its name line.
C8_AsStated ==
  InReport =>
    \A k \in 1..Len(block) :
      (block[k].tag = "Property" /\ block[k].name \in WellKnown)
        => (k < Len(block) /\ block[k + 1].tag \in CountTags)

\* The names that get a count line, per kind.
CountedFor(kind) ==
  IF kind = "subd" THEN {"P", "uv", "st", ".arbGeomParams"}
  ELSE {"P", "N", "uv", "st", ".arbGeomParams"}

\* The accessor a sample count is read from.
SourceOf(name) ==
  IF name = "P" THEN "schema"
  ELSE IF name = "N" THEN "normals"
  ELSE "uvs"

\* The property name lines of the running report.
PropertyLines == SelectSeq(block, LAMBDA l : l.tag = "Property")

\* C8 amended: mesh and curve reports print a count after P, N, uv, st and
\* .arbGeomParams; the subd report prints one after P, uv, st and
\* .arbGeomParams only, and N by name only.  Every declared property is
\* listed in index order, each count comes from the accessor of its name,
\* and every other name is printed by name only.
C8_CountedNamesPerKind ==
  InReport =>
    /\ \A k \in 1..Len(block) :
         /\ (block[k].tag = "Property" /\ block[k].name \in CountedFor(Top.kind))
              => /\ k < Len(block)
                 /\ block[k + 1].tag =
                      (IF block[k].name = ".arbGeomParams" THEN "GeomParams Count"
                                                          ELSE "Sample Count")
                 /\ (block[k + 1].tag = "Sample Count"
                       => block[k + 1].name = SourceOf(block[k].name))
         /\ (block[k].tag = "Property" /\ block[k].name \notin CountedFor(Top.kind))
              => (k = Len(block) \/ block[k + 1].tag \in {"Property"} \cup
                    {SubDTail[1].tag})
         /\ (block[k].tag \in CountTags /\ k > 4)
              => (block[k - 1].tag = "Property"
                    /\ block[k - 1].name \in CountedFor(Top.kind))
    /\ \A j \in 1..Len(PropertyLines) : PropertyLines[j].idx = j - 1
    /\ (Top.stage \in {"props", "geo"} => Len(PropertyLines) \in {Top.p, Top.p + 1})
    /\ (Top.stage \in {"tail", "numchildren"} =>
          /\ Len(block) >= 4
          /\ block[4].tag \in {"Mesh Property Count", "SubD Property Count",
                               "Curves Property Count"}
          /\ Len(PropertyLines) = block[4].idx)

\* A subd report has listed N by name only and then uv with its count.
C8_Witness ==
  /\ InReport
  /\ Top.kind = "subd"
  /\ Top.stage = "numchildren"
  /\ Len(block) = 11
  /\ block[5] = Line("Property", 0, "N")
  /\ block[6] = Line("Property", 1, "uv")
  /\ block[7] = Line("Sample Count", 0, "uvs")

\* The setup has run once as soon as an invocation has started, before any
\* file is created; nothing of a returned invocation is left behind.
C9_State ==
  /\ silenced = (IF invocation = "none" THEN 0 ELSE 1)
  /\ (initialized <=> invocation # "none")
  /\ (created # "none" \/ file = "exists" => initialized /\ silenced = 1)
  /\ (pc \in {"idle", "returned"} => stack = << >> /\ file = "absent")

\* C9: ignore_stdout runs exactly once per process, at the start of the
\* first invocation and before any temporary file is created; initialized
\* goes from false to true there and is never reset; every other variable
\* of an invocation starts afresh at the next one.
C9_SetupOnce ==
  /\ []C9_State
  /\ [][initialized => initialized']_vars
  /\ [][silenced' # silenced => (~initialized /\ invocation = "none" /\ pc' = "create")]_vars
  /\ [][(pc \in {"idle", "returned"} /\ pc' = "create") =>
          (/\ stack' = << >> /\ visited' = << >> /\ counts' = << >> /\ block' = << >>
           /\ created' = "none" /\ deleted' = "none" /\ deletes' = 0
           /\ ~threw' /\ ~caught' /\ file' = "absent")]_vars

\* A second invocation has created its file with the setup done once.
C9_Witness ==
  /\ invocation = "later"
  /\ created = "ok"
  /\ silenced = 1
  /\ initialized

\* The root of a valid archive is a transform and its call is at `stage`.
SoleXform(stage) ==
  /\ pc = "walk"
  /\ Len(stack) = 1
  /\ Top.stage = stage
  /\ Top.kind = "xform"
  /\ fileLine = "valid"

\* The block of a root transform, and what follows a child count of zero.
C10_State ==
  /\ SoleXform("numchildren") =>
       /\ visited = << << >> >>
       /\ rootCalls = 1
       /\ block = << Line("Node name", 0, ""), Line("Node full name", 0, ""),
                     Line("MetaData", 0, ""), Line("Sample Count", 0, "schema"),
                     Line("Number of Ops", 0, "") >>
  /\ SoleXform("children") /\ Top.n = 0 =>
       /\ visited = << << >> >>
       /\ counts = << 0 >>
       /\ Top.i = 0
       /\ block = << >>
  /\ (PrintInfoOver /\ ~threw /\ counts = << 0 >> => Len(visited) = 1)

====
